---- MODULE Spec2Model ----
(***************************************************************************)
(* Model of boe.py: the bounded-concurrency download of the daily BOE      *)
(* gazette PDFs.  download_boe_pdfs builds the list of dates, runs one     *)
(* process_date coroutine per date behind an asyncio.Semaphore, gathers    *)
(* the outcomes and aggregates them.  A coroutine is suspended only at an  *)
(* await (an HTTP GET or a backoff sleep), so each action below is the     *)
(* code that runs between two awaits of one coroutine.                     *)
(***************************************************************************)
EXTENDS Integers, Sequences, FiniteSets, TLC

\* ------------------------------------------------------------------------
\* Program constants (boe.py:12-14)
\* ------------------------------------------------------------------------
MAX_RETRIES == 3
RETRY_DELAY == 30

\* ------------------------------------------------------------------------
\* Bounds of the model
\* ------------------------------------------------------------------------
\* end_date is drawn from the first MaxDays days counted from Epoch
MaxDays == 2
\* the concurrency argument is drawn from 1..MaxConcurrency
MaxConcurrency == 2
\* the requests and sleeps of a date are totalled in the runs of at most
\* MaxTracedDays dates
MaxTracedDays == 1
\* the runs of at most MaxRerunDays dates are run a second time
MaxRerunDays == 1

\* ------------------------------------------------------------------------
\* Dates: datetime values at midnight, as <<year, month, day>>
\* ------------------------------------------------------------------------
Epoch == <<2024, 2, 28>>

IsLeap(y) == (y % 4 = 0 /\ y % 100 # 0) \/ y % 400 = 0

DaysInMonth(y, m) ==
    IF m = 2 THEN (IF IsLeap(y) THEN 29 ELSE 28)
    ELSE IF m \in {4, 6, 9, 11} THEN 30 ELSE 31

\* current + timedelta(days=1)
NextDay(d) ==
    IF d[3] < DaysInMonth(d[1], d[2]) THEN <<d[1], d[2], d[3] + 1>>
    ELSE IF d[2] < 12 THEN <<d[1], d[2] + 1, 1>>
    ELSE <<d[1] + 1, 1, 1>>

\* current <= end_date on datetimes
DateLeq(a, b) ==
    \/ a[1] < b[1]
    \/ a[1] = b[1] /\ a[2] < b[2]
    \/ a[1] = b[1] /\ a[2] = b[2] /\ a[3] <= b[3]

RECURSIVE Day(_)
\* the n-th day counted from Epoch (Day(1) = Epoch)
Day(n) == IF n <= 1 THEN Epoch ELSE NextDay(Day(n - 1))

RECURSIVE DateRange(_, _)
\* the while loop of download_boe_pdfs: every date from current to end_date
DateRange(current, end) ==
    IF DateLeq(current, end) THEN <<current>> \o DateRange(NextDay(current), end)
    ELSE <<>>

\* mutant: a path that leaves the day out: one directory per month
PdfPathByMonth(date) == <<date[1], date[2], 1, "boe.pdf">>

\* output_dir / date.strftime("%Y/%m/%d") / "boe.pdf"; the zero-padded
\* year, month and day segments are kept as the three numbers they print
PdfPath(date) == <<date[1], date[2], date[3], "boe.pdf">>

StartDates == {Day(1), Day(2)}
EndDates == {Day(n) : n \in 1..MaxDays}
Paths == {PdfPath(Day(n)) : n \in 1..MaxDays}

\* what can be at a path before the run: nothing, a directory, a
\* zero-byte file, a file left by an earlier run
InitialEntries == {"absent", "dir", "empty", "old"}

\* ------------------------------------------------------------------------
\* JSON values, as response.json() returns them.  A value is a record
\* tagged by its Python type: dict (f: key -> value), list (e: sequence),
\* str (s), None.  [t |-> "invalid"] is a body that is not JSON at all.
\* ------------------------------------------------------------------------
Obj(f) == [t |-> "dict", f |-> f]
Arr(e) == [t |-> "list", e |-> e]
Str(s) == [t |-> "str", s |-> s]
None == [t |-> "None"]
NotJson == [t |-> "invalid"]
EmptyObj == Obj(<<>>)

\* only a dict has .get; on any other value .get raises AttributeError
HasGet(v) == v.t = "dict"

\* v.get(key, default) on a dict
Get(v, key, default) == IF key \in DOMAIN v.f THEN v.f[key] ELSE default

\* Python truth value of a JSON value (the walrus test of line 77)
Truthy(v) ==
    CASE v.t = "str" -> v.s # ""
      [] v.t = "dict" -> DOMAIN v.f # {}
      [] v.t = "list" -> v.e # <<>>
      [] OTHER -> FALSE

\* the outcome of a computation that may raise
Raised == [raised |-> TRUE, pdfs |-> <<>>]
Returned(pdfs) == [raised |-> FALSE, pdfs |-> pdfs]

\* mutant: without the normalisation of lines 72-73 a single object is
\* iterated as its keys, and .get on a key raises
DiariosListOnly(data) ==
    IF ~HasGet(data) THEN Raised
    ELSE LET d1 == Get(data, "data", EmptyObj) IN
         IF ~HasGet(d1) THEN Raised
         ELSE LET d2 == Get(d1, "sumario", EmptyObj) IN
              IF ~HasGet(d2) THEN Raised
              ELSE LET diarios == Get(d2, "diario", Arr(<<>>)) IN
                   IF diarios.t = "list" THEN Returned(diarios.e) ELSE Raised

\* data.get("data", {}).get("sumario", {}).get("diario", []) and the
\* normalisation of a single object into a list (lines 71-73)
Diarios(data) ==
    IF ~HasGet(data) THEN Raised
    ELSE LET d1 == Get(data, "data", EmptyObj) IN
         IF ~HasGet(d1) THEN Raised
         ELSE LET d2 == Get(d1, "sumario", EmptyObj) IN
              IF ~HasGet(d2) THEN Raised
              ELSE LET diarios == Get(d2, "diario", Arr(<<>>)) IN
                   IF diarios.t = "list" THEN Returned(diarios.e)
                   ELSE Returned(<<diarios>>)

RECURSIVE CollectPdfs(_, _)
\* the for loop of lines 75-79 over diarios, from position n on
CollectPdfs(diarios, n) ==
    IF n > Len(diarios) THEN Returned(<<>>)
    ELSE LET diario == diarios[n] IN
         IF ~HasGet(diario) THEN Raised
         ELSE LET sumario == Get(diario, "sumario_diario", EmptyObj) IN
              IF ~HasGet(sumario) THEN Raised
              ELSE LET url_pdf == Get(sumario, "url_pdf", EmptyObj) IN
                   IF ~HasGet(url_pdf) THEN Raised
                   ELSE LET pdf_url == Get(url_pdf, "texto", None)
                            identifier == Get(sumario, "identificador", Str("unknown"))
                            rest == CollectPdfs(diarios, n + 1)
                        IN IF rest.raised THEN Raised
                           ELSE IF Truthy(pdf_url)
                                THEN Returned(<<<<pdf_url.s, identifier.s>>>> \o rest.pdfs)
                                ELSE rest

\* response.json() followed by the extraction of lines 69-79: the list of
\* (pdf_url, identifier) pairs, or an exception that nothing catches
ExtractPdfs(body) ==
    IF body.t = "invalid" THEN Raised
    ELSE LET diarios == Diarios(body) IN
         IF diarios.raised THEN Raised ELSE CollectPdfs(diarios.pdfs, 1)

\* ------------------------------------------------------------------------
\* The bodies the summary endpoint answers with HTTP 200 in the model
\* ------------------------------------------------------------------------
Entry(url, id) ==
    Obj([sumario_diario |-> Obj([url_pdf |-> Obj([texto |-> Str(url)]),
                                 identificador |-> Str(id)])])
EntryNoId(url) == Obj([sumario_diario |-> Obj([url_pdf |-> Obj([texto |-> Str(url)])])])
EntryNoUrl == Obj([sumario_diario |-> Obj([identificador |-> Str("A")])])
Doc(diario) == Obj([data |-> Obj([sumario |-> Obj([diario |-> diario])])])

\* Each body comes with what it is: urls, the download URLs of its entries
\* in order, and ok, whether it is valid JSON, an object, and every field
\* of the API contract it has is of the contract's type
Body(json, ok, urls) == [json |-> json, ok |-> ok, urls |-> urls]

Bodies ==
    << Body(Doc(Entry("a", "A")), TRUE, <<"a">>),          \* diario as a single object
       Body(Doc(Arr(<<Entry("a", "A")>>)), TRUE, <<"a">>), \* diario as an array of one
       Body(Doc(Arr(<<Entry("a", "A"), Entry("b", "B")>>)), TRUE, <<"a", "b">>),
       Body(Doc(Arr(<<>>)), TRUE, <<>>),
       \* an entry without a url is skipped, a missing identifier is "unknown"
       Body(Doc(Arr(<<EntryNoUrl, EntryNoId("b")>>)), TRUE, <<"b">>),
       Body(Doc(Entry("", "A")), TRUE, <<>>),              \* an empty url is skipped
       Body(Doc(EntryNoUrl), TRUE, <<>>),
       \* absent fields
       Body(EmptyObj, TRUE, <<>>),
       Body(Obj([data |-> EmptyObj]), TRUE, <<>>),
       \* not valid JSON
       Body(NotJson, FALSE, <<>>),
       \* the top-level value is not an object
       Body(Arr(<<>>), FALSE, <<>>),
       Body(Str("x"), FALSE, <<>>),
       \* a field of the wrong type
       Body(Obj([data |-> None]), FALSE, <<>>),
       Body(Obj([data |-> Obj([sumario |-> Str("x")])]), FALSE, <<>>),
       Body(Doc(Str("x")), FALSE, <<>>),
       Body(Doc(None), FALSE, <<>>),
       Body(Doc(Arr(<<Entry("a", "A"), Str("x")>>)), FALSE, <<"a">>),
       Body(Doc(Obj([sumario_diario |-> Arr(<<>>)])), FALSE, <<>>),
       Body(Doc(Obj([sumario_diario |-> Obj([url_pdf |-> Str("a")])])), FALSE, <<>>) >>

\* response.content of the artifact GET for a url
Content(url) == url

\* ------------------------------------------------------------------------
\* State
\* ------------------------------------------------------------------------
VARIABLES
    start_date,   \* arguments of download_boe_pdfs
    end_date,
    concurrency,
    fs,           \* what is at each <output_dir>/YYYY/MM/DD/boe.pdf
    run,          \* where download_boe_pdfs is: "init", "gather", "aggregate",
                  \* "done" (final summary printed), "aborted" (it raised)
    dates,        \* the list built by lines 102-106
    sem,          \* free slots of asyncio.Semaphore(concurrency)
    task,         \* task[i]: the coroutine process_with_limit(dates[i])
    results,      \* what asyncio.gather returned
    n,            \* results aggregated so far (the loop index of line 127)
    stats,        \* the Run Statistics accumulator
    out_of_order, \* some coroutine ended before one earlier in the list
    pass,         \* 1 in the first run of main, 2 in a second run of it
    earlier       \* in the second run: the results of the first

vars == <<start_date, end_date, concurrency, fs, run, dates, sem, task,
          results, n, stats, out_of_order, pass, earlier>>

NoResult == <<>>

\* a coroutine that has not run yet
NewTask ==
    [ found |-> "none",      \* what the cache check saw at pdf_path
      pc |-> "pending",      \* "pending": waiting for a slot of sem
                             \* "summary_get", "pdf_get": awaiting session.get
                             \* "summary_sleep", "pdf_sleep": awaiting asyncio.sleep
                             \* "done": returned result; "raised"; "cancelled"
      attempt |-> 0,         \* loop variable of the retry loop that is running
      response |-> -1,       \* status of the last answer to a summary GET:
                             \* -1 before any, 0 when the GET raised
      shape |-> "none",      \* the body of a 200 answer: "ok" or "malformed"
      urls |-> <<>>,         \* the download URLs that body carries
      pdfs |-> <<>>,         \* (pdf_url, identifier) pairs of line 79
      idx |-> 0,             \* position in pdfs of the download under way
      downloaded |-> 0,
      result |-> NoResult,   \* the returned (count, status)
      asked |-> {},          \* kinds of GET issued so far: "summary", "pdf"
      tries |-> 0,           \* GETs issued by the retry loop that is running
      slept |-> <<>>,        \* delays slept in the retry loop that is running
      gets |-> 0,            \* GETs issued so far while it runs (traced runs)
      sleeps |-> 0,          \* sleeps made so far while it runs (traced runs)
      failed |-> {},         \* positions of pdfs whose download_pdf raised
      attempted |-> <<>> ]   \* positions of pdfs a GET was issued for, in order

\* a coroutine between "async with sem" and its end holds one slot
Holding(t) == t.pc \in {"summary_get", "summary_sleep", "pdf_get", "pdf_sleep"}
Ended(t) == t.pc \in {"done", "raised", "cancelled"}

Tasks == 1..Len(task)
InFlight == {i \in Tasks : Holding(task[i])}

Init ==
    /\ start_date \in StartDates
    /\ end_date \in EndDates
    /\ concurrency \in 1..MaxConcurrency
    /\ fs \in [Paths -> InitialEntries]
    /\ run = "init"
    /\ dates = <<>>
    /\ sem = 0
    /\ task = <<>>
    /\ results = <<>>
    /\ n = 0
    /\ stats = [downloaded |-> 0, no_boe |-> 0, errors |-> 0, cached |-> 0]
    /\ out_of_order = FALSE
    /\ pass = 1
    /\ earlier = <<>>

\* ------------------------------------------------------------------------
\* download_boe_pdfs up to asyncio.gather (lines 99-124)
\* ------------------------------------------------------------------------
Begin ==
    /\ run = "init"
    /\ run' = "gather"
    /\ dates' = DateRange(start_date, end_date)
    /\ stats' = [downloaded |-> 0, no_boe |-> 0, errors |-> 0, cached |-> 0]
    /\ sem' = concurrency
    /\ task' = [i \in 1..Len(dates') |-> NewTask]
    /\ UNCHANGED <<start_date, end_date, concurrency, fs, results, n, out_of_order,
                   pass, earlier>>

\* ------------------------------------------------------------------------
\* process_date (lines 34-92) and download_pdf (lines 17-31)
\* ------------------------------------------------------------------------
\* mutant: the cache check is skipped
CacheHitNever(files, path) == FALSE

\* pdf_path.exists()
CacheHit(files, path) == files[path] # "absent"

\* mutant: the semaphore admits every coroutine
SlotFreeAlways(value) == TRUE

\* Semaphore.acquire returns at once only while a slot is free
SlotFree(value) == value > 0

\* mutant: the loop sleeps after its last attempt too
ShouldRetryAlways(attempt) == attempt < MAX_RETRIES

\* attempt < MAX_RETRIES - 1 (lines 28 and 60)
ShouldRetry(attempt) == attempt < MAX_RETRIES - 1

\* mutant: a fixed delay instead of a linear one
BackoffDelayFixed(attempt) == RETRY_DELAY

\* RETRY_DELAY * (attempt + 1) (lines 29 and 61)
BackoffDelay(attempt) == RETRY_DELAY * (attempt + 1)

\* one more GET or sleep in the total of a traced run
Counted(total) == IF Len(dates) <= MaxTracedDays THEN total + 1 ELSE total

\* return count, status
Return(t, count, status) ==
    [t EXCEPT !.pc = "done", !.result = <<count, status>>, !.gets = 0, !.sleeps = 0]

\* the first session.get of the summary retry loop (lines 45-51)
FetchSummary(t) ==
    [t EXCEPT !.pc = "summary_get", !.attempt = 0, !.slept = <<>>,
              !.tries = 1, !.asked = @ \cup {"summary"}, !.gets = Counted(@)]

\* lines 38-51: the cache check, then the first summary GET
EnterProcessDate(t, files, date) ==
    LET u == [t EXCEPT !.found = files[PdfPath(date)]] IN
    IF CacheHit(files, PdfPath(date)) THEN Return(u, 0, "cached")
    ELSE FetchSummary(u)

\* the download loop of lines 83-92 from position k on: the first
\* session.get of download_pdf for pdfs[k], or the return after the last
DownloadFrom(t, k) ==
    IF k <= Len(t.pdfs)
    THEN [t EXCEPT !.pc = "pdf_get", !.idx = k, !.attempt = 0, !.slept = <<>>,
                   !.tries = 1, !.asked = @ \cup {"pdf"}, !.gets = Counted(@),
                   !.attempted = Append(@, k)]
    ELSE Return(t, t.downloaded, "success")

\* lines 57-82 after a 2xx answer: parse, extract, start the downloads
OnSummaryBody(t, body) ==
    LET x == ExtractPdfs(body.json)
        u == [t EXCEPT !.shape = IF body.ok THEN "ok" ELSE "malformed",
                       !.urls = body.urls]
    IN IF x.raised THEN [u EXCEPT !.pc = "raised", !.gets = 0, !.sleeps = 0]
       ELSE DownloadFrom([u EXCEPT !.pdfs = x.pdfs, !.downloaded = 0], 1)

\* the except clause of lines 59-64
OnSummaryFailure(t) ==
    IF ShouldRetry(t.attempt)
    THEN [t EXCEPT !.pc = "summary_sleep", !.slept = Append(@, BackoffDelay(t.attempt)),
                   !.sleeps = Counted(@)]
    ELSE Return(t, 0, "error")

\* mutant: a 404 is handled like any other error status
OnSummaryReplyRetry404(t, reply) ==
    LET u == [t EXCEPT !.response = reply.status_code] IN
    IF reply.status_code = 0 THEN OnSummaryFailure(u)
    ELSE IF reply.status_code \notin 200..299 THEN OnSummaryFailure(u)
    ELSE OnSummaryBody(u, Bodies[reply.body])

\* lines 49-64 once session.get has answered or failed.  reply.status_code
\* is 0 when the request raised httpx.HTTPError and no response exists
OnSummaryReply(t, reply) ==
    LET u == [t EXCEPT !.response = reply.status_code] IN
    IF reply.status_code = 0 THEN OnSummaryFailure(u)
    ELSE IF reply.status_code = 404 THEN Return(u, 0, "no_boe")
    ELSE IF reply.status_code \notin 200..299 THEN OnSummaryFailure(u)
    ELSE OnSummaryBody(u, Bodies[reply.body])

\* after asyncio.sleep of line 61: the next iteration of the loop of line
\* 47, or lines 66-67 when range(MAX_RETRIES) is used up
OnSummaryWake(t) ==
    IF t.attempt + 1 < MAX_RETRIES
    THEN [t EXCEPT !.pc = "summary_get", !.attempt = @ + 1, !.tries = @ + 1,
                   !.gets = Counted(@)]
    ELSE Return(t, 0, "error")

\* download_pdf lines 24-26 and process_date line 88
OnPdfSuccess(t) == DownloadFrom([t EXCEPT !.downloaded = @ + 1], t.idx + 1)

\* mutant: the first download that fails ends the download loop
OnPdfFailureStops(t) ==
    IF ShouldRetry(t.attempt)
    THEN [t EXCEPT !.pc = "pdf_sleep", !.slept = Append(@, BackoffDelay(t.attempt)),
                   !.sleeps = Counted(@)]
    ELSE Return([t EXCEPT !.failed = @ \cup {t.idx}], t.downloaded, "success")

\* mutant: the exception of download_pdf is not caught by process_date
OnPdfFailureRaises(t) ==
    IF ShouldRetry(t.attempt)
    THEN [t EXCEPT !.pc = "pdf_sleep", !.slept = Append(@, BackoffDelay(t.attempt)),
                   !.sleeps = Counted(@)]
    ELSE [t EXCEPT !.pc = "raised", !.failed = @ \cup {t.idx}, !.gets = 0, !.sleeps = 0]

\* mutant: a download that used up its attempts is started over once
OnPdfFailureStartsOver(t) ==
    IF ShouldRetry(t.attempt)
    THEN [t EXCEPT !.pc = "pdf_sleep", !.slept = Append(@, BackoffDelay(t.attempt)),
                   !.sleeps = Counted(@)]
    ELSE IF t.idx \notin t.failed
    THEN DownloadFrom([t EXCEPT !.failed = @ \cup {t.idx}], t.idx)
    ELSE DownloadFrom(t, t.idx + 1)

\* download_pdf lines 27-31; the raise of line 31 is caught at line 89
OnPdfFailure(t) ==
    IF ShouldRetry(t.attempt)
    THEN [t EXCEPT !.pc = "pdf_sleep", !.slept = Append(@, BackoffDelay(t.attempt)),
                   !.sleeps = Counted(@)]
    ELSE DownloadFrom([t EXCEPT !.failed = @ \cup {t.idx}], t.idx + 1)

\* after asyncio.sleep of line 29: the next iteration of the loop of line
\* 19; when range(MAX_RETRIES) is used up download_pdf returns None
OnPdfWake(t) ==
    IF t.attempt + 1 < MAX_RETRIES
    THEN [t EXCEPT !.pc = "pdf_get", !.attempt = @ + 1, !.tries = @ + 1,
                   !.gets = Counted(@)]
    ELSE OnPdfSuccess(t)

\* the answers the model gives to a summary GET and to an artifact GET
SummaryReplies ==
    {[status_code |-> c, body |-> 0] : c \in {0, 404, 500}}
        \cup {[status_code |-> 200, body |-> b] : b \in DOMAIN Bodies}
PdfReplies == {0, 200, 404, 500}

\* mutant: a gate that keeps the slot of a process_date that raised
SemAfterKeptOnRaise(value, t, u) ==
    IF Holding(t) /\ u.pc = "done" THEN value + 1
    ELSE IF ~Holding(t) /\ Holding(u) THEN value - 1
    ELSE value

\* the slots free after task i went from state t to state u
SemAfter(value, t, u) ==
    IF Holding(t) /\ ~Holding(u) THEN value + 1
    ELSE IF ~Holding(t) /\ Holding(u) THEN value - 1
    ELSE value

\* mutant: a process_with_limit that adds its own count to stats when it returns
StepTalliesOnReturn(i, u) ==
    /\ task' = [task EXCEPT ![i] = u]
    /\ sem' = SemAfter(sem, task[i], u)
    /\ out_of_order' = (out_of_order \/ (Ended(u) /\ \E j \in 1..(i - 1) : ~Ended(task[j])))
    /\ stats' = IF u.pc = "done" THEN [stats EXCEPT !.downloaded = @ + u.result[1]]
                 ELSE stats
    /\ UNCHANGED <<start_date, end_date, concurrency, run, dates, results, n,
                   pass, earlier>>

\* one step of the coroutine of date i, from task[i] to u (lines 118-120)
Step(i, u) ==
    /\ task' = [task EXCEPT ![i] = u]
    /\ sem' = SemAfter(sem, task[i], u)
    /\ out_of_order' = (out_of_order \/ (Ended(u) /\ \E j \in 1..(i - 1) : ~Ended(task[j])))
    /\ UNCHANGED <<start_date, end_date, concurrency, run, dates, results, n, stats,
                   pass, earlier>>

\* process_with_limit: "async with sem" admits the coroutine, which runs
\* process_date up to its first await.  The semaphore wakes its waiters in
\* the order they arrived, which is the order of the list of line 123.
Start(i) ==
    /\ run = "gather"
    /\ task[i].pc = "pending"
    /\ SlotFree(sem)
    /\ \A j \in 1..(i - 1) : task[j].pc # "pending"
    /\ Step(i, EnterProcessDate(task[i], fs, dates[i]))
    /\ UNCHANGED fs

SummaryReply(i) ==
    /\ run = "gather"
    /\ task[i].pc = "summary_get"
    /\ \E reply \in SummaryReplies : Step(i, OnSummaryReply(task[i], reply))
    /\ UNCHANGED fs

SummaryWake(i) ==
    /\ run = "gather"
    /\ task[i].pc = "summary_sleep"
    /\ Step(i, OnSummaryWake(task[i]))
    /\ UNCHANGED fs

\* mutant: the body of the response is not written
WriteFileDropped(files, path, url) == files

\* mutant: a write that leaves a file already at the path as it is
WriteFileKeepsFirst(files, path, url) ==
    IF files[path] = "absent" THEN [files EXCEPT ![path] = Content(url)] ELSE files

\* path.write_bytes(response.content) at the one path of the date
WriteFile(files, path, url) == [files EXCEPT ![path] = Content(url)]

PdfReply(i) ==
    /\ run = "gather"
    /\ task[i].pc = "pdf_get"
    /\ \E status_code \in PdfReplies :
         IF status_code \in 200..299
         THEN /\ fs' = WriteFile(fs, PdfPath(dates[i]), task[i].pdfs[task[i].idx][1])
              /\ Step(i, OnPdfSuccess(task[i]))
         ELSE /\ Step(i, OnPdfFailure(task[i]))
              /\ UNCHANGED fs

PdfWake(i) ==
    /\ run = "gather"
    /\ task[i].pc = "pdf_sleep"
    /\ Step(i, OnPdfWake(task[i]))
    /\ UNCHANGED fs

\* ------------------------------------------------------------------------
\* download_boe_pdfs from asyncio.gather on (lines 124-149)
\* ------------------------------------------------------------------------
\* every coroutine returned: gather returns their results in list order
GatherReturn ==
    /\ run = "gather"
    /\ \A i \in Tasks : task[i].pc = "done"
    /\ results' = [i \in Tasks |-> task[i].result]
    /\ n' = 0
    /\ run' = "aggregate"
    /\ UNCHANGED <<start_date, end_date, concurrency, fs, dates, sem, task, stats,
                   out_of_order, pass, earlier>>

\* a coroutine raised: gather raises its exception in download_boe_pdfs,
\* which ends without a result; asyncio.run then cancels the coroutines
\* that have not ended, each at the await it is suspended in
Cancelled(t) ==
    IF Ended(t) THEN t ELSE [t EXCEPT !.pc = "cancelled", !.gets = 0, !.sleeps = 0]

GatherRaise ==
    /\ run = "gather"
    /\ \E i \in Tasks : task[i].pc = "raised"
    /\ run' = "aborted"
    /\ task' = [i \in Tasks |-> Cancelled(task[i])]
    /\ sem' = sem + Cardinality(InFlight)
    /\ UNCHANGED <<start_date, end_date, concurrency, fs, dates, results, n, stats,
                   out_of_order, pass, earlier>>

\* mutant: the cached outcomes are not tallied
AggregateNoCached(st, result) ==
    LET count == result[1]
        status == result[2]
        s1 == [st EXCEPT !.downloaded = @ + count]
    IN IF status = "no_boe" THEN [s1 EXCEPT !.no_boe = @ + 1]
       ELSE IF status = "error" THEN [s1 EXCEPT !.errors = @ + 1]
       ELSE s1

\* lines 128-135 for one result
Aggregate(st, result) ==
    LET count == result[1]
        status == result[2]
        s1 == [st EXCEPT !.downloaded = @ + count]
    IN IF status = "no_boe" THEN [s1 EXCEPT !.no_boe = @ + 1]
       ELSE IF status = "error" THEN [s1 EXCEPT !.errors = @ + 1]
       ELSE IF status = "cached" THEN [s1 EXCEPT !.cached = @ + 1]
       ELSE s1

\* one iteration of the loop of line 127
AggregateNext ==
    /\ run = "aggregate"
    /\ n < Len(results)
    /\ stats' = Aggregate(stats, results[n + 1])
    /\ n' = n + 1
    /\ UNCHANGED <<start_date, end_date, concurrency, fs, run, dates, sem, task, results,
                   out_of_order, pass, earlier>>

\* the loop is over: the final summary of lines 144-149
Finish ==
    /\ run = "aggregate"
    /\ n = Len(results)
    /\ run' = "done"
    /\ UNCHANGED <<start_date, end_date, concurrency, fs, dates, sem, task, results, n,
                   stats, out_of_order, pass, earlier>>

Next ==
    \/ Begin
    \/ \E i \in Tasks : Start(i)
    \/ \E i \in Tasks : SummaryReply(i)
    \/ \E i \in Tasks : SummaryWake(i)
    \/ \E i \in Tasks : PdfReply(i)
    \/ \E i \in Tasks : PdfWake(i)
    \/ GatherReturn
    \/ GatherRaise
    \/ AggregateNext
    \/ Finish

Spec == Init /\ [][Next]_vars

\* ------------------------------------------------------------------------
\* A second run: main is started again with the same arguments on the
\* files the first run left (lines 185-188)
\* ------------------------------------------------------------------------
Rerun ==
    /\ run = "done"
    /\ pass = 1
    /\ pass' = 2
    /\ earlier' = results
    /\ run' = "init"
    /\ dates' = <<>>
    /\ sem' = 0
    /\ task' = <<>>
    /\ results' = <<>>
    /\ n' = 0
    /\ out_of_order' = FALSE
    /\ UNCHANGED <<start_date, end_date, concurrency, fs, stats>>

\* the runs that are run twice: those of at most MaxRerunDays dates
RerunInit == Init /\ Len(DateRange(start_date, end_date)) <= MaxRerunDays

RerunNext == Next \/ Rerun

RerunSpec == RerunInit /\ [][RerunNext]_vars

TypeOK ==
    /\ run \in {"init", "gather", "aggregate", "done", "aborted"}
    /\ sem \in 0..concurrency
    /\ n \in 0..Len(results)
    /\ pass \in {1, 2}
    /\ pass = 1 => earlier = <<>>

\* ------------------------------------------------------------------------
\* Properties
\* ------------------------------------------------------------------------
\* the delays RETRY_DELAY * 1, ..., RETRY_DELAY * k
LinearDelays(k) == [j \in 1..k |-> RETRY_DELAY * j]

\* a regular file was at the path of the date when process_date checked it
FileFound(t) == t.found \in {"empty", "old"}

\* C1: at every moment the number of process_date executions that have
\* started and not yet returned is at most the concurrency limit N
C1_AtMostNInFlight == Cardinality(InFlight) <= concurrency

\* the cap binds: N executions in flight while a further date waits
C1_Witness ==
    /\ run = "gather"
    /\ Cardinality(InFlight) = concurrency
    /\ \E i \in Tasks : task[i].pc = "pending"

\* C2: a date whose file already exists when process_date starts issues
\* no HTTP request of either kind, leaves the file as it was and returns
\* (0, cached)
C2_CacheHitNoNetwork ==
    \A i \in Tasks :
        FileFound(task[i]) =>
            /\ task[i].pc = "done"
            /\ task[i].result = <<0, "cached">>
            /\ task[i].asked = {}
            /\ task[i].tries = 0
            /\ fs[PdfPath(dates[i])] = task[i].found

C2_Witness ==
    \E i \in Tasks : FileFound(task[i]) /\ task[i].result = <<0, "cached">>

\* C3: on a cache miss, once a summary GET answers 404 process_date has
\* returned (0, no_boe): no further attempt, no sleep after the 404 (the
\* sleeps are those of the failed attempts before it), no artifact GET
\* and no file
C3_NotFoundReturnsAtOnce ==
    \A i \in Tasks :
        task[i].response = 404 =>
            /\ task[i].found = "absent"
            /\ task[i].pc = "done"
            /\ task[i].result = <<0, "no_boe">>
            /\ task[i].slept = LinearDelays(task[i].tries - 1)
            /\ "pdf" \notin task[i].asked
            /\ task[i].attempted = <<>>
            /\ fs[PdfPath(dates[i])] = "absent"

\* a 404 on a later attempt, after a transient failure
C3_Witness ==
    \E i \in Tasks :
        task[i].response = 404 /\ task[i].tries > 1 /\ task[i].result = <<0, "no_boe">>

\* C4: on a cache miss, when the summary carries k entries with a download
\* URL (diario a single object or an array) and none of the k downloads
\* fails, process_date returns (k, success)
C4_AllDownloadsSucceed ==
    \A i \in Tasks :
        /\ task[i].shape = "ok" => task[i].pc # "raised"
        /\ (task[i].pc = "done" /\ task[i].shape = "ok" /\ task[i].failed = {}) =>
               task[i].result = <<Len(task[i].urls), "success">>

C4_Witness ==
    \E i \in Tasks :
        /\ task[i].shape = "ok"
        /\ Len(task[i].urls) = 2
        /\ task[i].failed = {}
        /\ task[i].result = <<2, "success">>

\* C5: when the download of an artifact fails after its retries,
\* process_date does not raise, goes on to every remaining artifact in
\* order, and returns success with the number of downloads that succeeded,
\* which is less than k
C5_FailedDownloadIsSkipped ==
    \A i \in Tasks :
        task[i].failed # {} =>
            /\ task[i].pc \in {"pdf_get", "pdf_sleep", "done", "cancelled"}
            /\ task[i].pc = "done" =>
                 /\ task[i].attempted = [j \in 1..Len(task[i].urls) |-> j]
                 /\ task[i].result[2] = "success"
                 /\ task[i].result[1] = Len(task[i].urls) - Cardinality(task[i].failed)
                 /\ task[i].result[1] < Len(task[i].urls)

\* the first of two downloads failed, the second was still made and succeeded
C5_Witness ==
    \E i \in Tasks :
        /\ task[i].failed = {1}
        /\ task[i].attempted = <<1, 2>>
        /\ task[i].result = <<1, "success">>
\* the summary fetch of the date failed on every attempt
SummaryExhausted(t) == t.result = <<0, "error">>

\* C6: a summary fetch or an artifact download that fails on every attempt
\* never raises out of process_date, so it aborts neither the run nor a
\* sibling day: as long as no day met a malformed body, no day raises or
\* is cancelled and the run is not aborted, and a run that prints its
\* final summary has aggregated an outcome for every date
C6_FailuresAreContained ==
    /\ \A i \in Tasks :
           (SummaryExhausted(task[i]) \/ task[i].failed # {}) => task[i].pc # "raised"
    /\ (\A i \in Tasks : task[i].shape # "malformed") =>
           /\ run # "aborted"
           /\ \A i \in Tasks : task[i].pc \notin {"raised", "cancelled"}
    /\ run \in {"aggregate", "done"} =>
           /\ Len(results) = Len(dates)
           /\ \A i \in Tasks : task[i].pc = "done" /\ results[i] = task[i].result
    /\ run = "done" => n = Len(dates)

\* one day exhausted its summary retries, another lost a download, and
\* the run still reached its final summary with both outcomes aggregated
C6_Witness ==
    /\ run = "done"
    /\ \E i, j \in Tasks :
          /\ i # j
          /\ SummaryExhausted(task[i])
          /\ task[j].failed # {}
          /\ task[j].pc = "done"
    /\ stats.errors = 1

\* C7 (as the specification states it): a 2xx summary answer with a
\* malformed body never makes process_date raise; the day ends with an
\* outcome of zero entries and the run is not aborted
C7_MalformedBodyDoesNotRaise ==
    /\ \A i \in Tasks :
           task[i].shape = "malformed" =>
               /\ task[i].pc # "raised"
               /\ task[i].pc = "done" => task[i].result[1] = 0
    /\ run # "aborted"

\* C8 (as the specification states it): a summary fetch that fails on
\* every attempt has waited 30s, 60s and 90s before it returns (0, error)
C8_ThreeWaits ==
    \A i \in Tasks :
        SummaryExhausted(task[i]) => task[i].slept = LinearDelays(MAX_RETRIES)

\* C8 (amended): the summary GET is attempted at most MAX_RETRIES times;
\* the wait after failed attempt k is RETRY_DELAY * k and there is none
\* after the last attempt, so a fetch that fails on every attempt has
\* made MAX_RETRIES requests, waited 30s and 60s, and returned (0, error)
\* without raising
C8_SummaryRetrySchedule ==
    \A i \in Tasks :
        /\ task[i].pc = "summary_get" =>
              /\ task[i].tries \in 1..MAX_RETRIES
              /\ task[i].slept = LinearDelays(task[i].tries - 1)
        /\ task[i].pc = "summary_sleep" =>
              /\ task[i].tries \in 1..(MAX_RETRIES - 1)
              /\ task[i].slept = LinearDelays(task[i].tries)
        /\ SummaryExhausted(task[i]) =>
              /\ task[i].pc = "done"
              /\ task[i].response \in {0, 500}
              /\ task[i].tries = MAX_RETRIES
              /\ task[i].slept = <<RETRY_DELAY, 2 * RETRY_DELAY>>
              /\ task[i].asked = {"summary"}

C8_Witness ==
    \E i \in Tasks : SummaryExhausted(task[i]) /\ task[i].slept = <<30, 60>>
\* download_pdf for pdfs[idx] is over and the caller went on: to the next
\* artifact with a fresh retry loop, or to its return
MovedOn(t, u) ==
    \/ u.pc = "done" /\ t.idx = Len(t.pdfs)
    \/ u.pc = "pdf_get" /\ u.idx = t.idx + 1 /\ u.tries = 1 /\ u.slept = <<>>

\* what one step of download_pdf for dates[i] does once its GET is answered
C9_AfterPdfGet(i) ==
    LET t == task[i]
        u == task'[i]
        path == PdfPath(dates[i])
    IN (t.pc = "pdf_get" /\ u # t /\ u.pc # "cancelled") =>
          \* a failed attempt before the last: sleep RETRY_DELAY * attempt number
          \/ /\ t.tries < MAX_RETRIES
             /\ u.pc = "pdf_sleep"
             /\ u.slept = Append(t.slept, RETRY_DELAY * t.tries)
             /\ u.idx = t.idx /\ u.tries = t.tries
             /\ u.failed = t.failed /\ u.downloaded = t.downloaded
             /\ fs' = fs
          \* the last attempt failed: raised to process_date, nothing written
          \/ /\ t.tries = MAX_RETRIES
             /\ t.slept = LinearDelays(MAX_RETRIES - 1)
             /\ u.failed = t.failed \cup {t.idx}
             /\ u.downloaded = t.downloaded
             /\ fs' = fs
             /\ MovedOn(t, u)
          \* success: the body is written and no further request is made for it
          \/ /\ fs' = [fs EXCEPT ![path] = Content(t.pdfs[t.idx][1])]
             /\ u.downloaded = t.downloaded + 1
             /\ u.failed = t.failed
             /\ MovedOn(t, u)

\* after a sleep the same artifact is requested again
C9_AfterPdfSleep(i) ==
    LET t == task[i]
        u == task'[i]
    IN (t.pc = "pdf_sleep" /\ u # t /\ u.pc # "cancelled") =>
          /\ u.pc = "pdf_get"
          /\ u.idx = t.idx
          /\ u.tries = t.tries + 1
          /\ u.tries <= MAX_RETRIES
          /\ fs' = fs

\* C9: in download_pdf the delay slept after failed attempt k is
\* RETRY_DELAY * k; after MAX_RETRIES failed attempts the failure is raised
\* to process_date; a success on any attempt writes the file and ends the
\* retry loop without a further request
C9_DownloadRetrySchedule ==
    [][\A i \in Tasks : C9_AfterPdfGet(i) /\ C9_AfterPdfSleep(i)]_vars

\* a download was given up after three attempts and waits of 30s and 60s,
\* and the one before it succeeded and left its body on disk
C9_Witness ==
    \E i \in Tasks :
        /\ task[i].pc = "done"
        /\ task[i].failed = {2}
        /\ task[i].tries = MAX_RETRIES
        /\ task[i].slept = <<30, 60>>
        /\ task[i].downloaded = 1
        /\ fs[PdfPath(dates[i])] = Content(task[i].pdfs[1][1])

RECURSIVE SumCounts(_, _)
\* the sum of the counts of the first k outcomes
SumCounts(outcomes, k) ==
    IF k = 0 THEN 0 ELSE outcomes[k][1] + SumCounts(outcomes, k - 1)

\* how many of the first k outcomes have the status
Tally(outcomes, k, status) == Cardinality({i \in 1..k : outcomes[i][2] = status})

\* the elementwise sum of the first k Day Outcomes
SumOfOutcomes(outcomes, k) ==
    [ downloaded |-> SumCounts(outcomes, k),
      no_boe |-> Tally(outcomes, k, "no_boe"),
      errors |-> Tally(outcomes, k, "error"),
      cached |-> Tally(outcomes, k, "cached") ]

\* what each process_date returned, in the order of the dates
Outcomes == [i \in Tasks |-> task[i].result]

\* C10: the statistics are the elementwise sum of the Day Outcomes (after
\* k iterations, of the first k), so at the end downloaded is the sum of
\* the counts and cached, no_boe and errors count the days of each status,
\* whatever the order the days completed in
C10_StatsAreSumOfOutcomes ==
    /\ run = "aggregate" => stats = SumOfOutcomes(Outcomes, n)
    /\ run = "done" => stats = SumOfOutcomes(Outcomes, Len(dates))

\* a finished run whose days completed out of list order, with a cached
\* day and a day that downloaded
C10_Witness ==
    /\ run = "done"
    /\ out_of_order
    /\ stats.cached >= 1
    /\ stats.downloaded >= 1

\* C11: every run comes to its end with every date at a terminal outcome:
\* once download_boe_pdfs is past the gather, process_date has run and
\* returned for every date of the range, the results hold one outcome per
\* date, and the run goes on to aggregate them and return the statistics
C11_EveryDateEndsAndRunReturns ==
    run \notin {"init", "gather"} =>
        /\ run \in {"aggregate", "done"}
        /\ Len(task) = Len(dates)
        /\ \A i \in Tasks : task[i].pc = "done" /\ task[i].result # NoResult
        /\ results = Outcomes

\* C12: called with start date > end date the run fails before any work
\* starts: it never builds its tasks, never gathers and never reports
\* statistics as a normal completion
C12_InvalidRangeIsRejected == ~DateLeq(start_date, end_date) => run = "init"

\* C13: the cache check reports a hit exactly when a regular file (of any
\* size, zero bytes included) is at the path of the date; with a directory
\* at the path the date is not cached and the summary is requested
C13_OnlyARegularFileIsAHit ==
    \A i \in Tasks :
        task[i].found # "none" =>
            /\ task[i].result = <<0, "cached">> => FileFound(task[i])
            /\ task[i].found = "empty" => task[i].result = <<0, "cached">>
            /\ task[i].found = "dir" => "summary" \in task[i].asked

\* the statuses of a Day Outcome
Statuses == {"cached", "no_boe", "success", "error"}

\* C14: every date of a run ends with exactly one Day Outcome (count,
\* status) with status one of cached, no_boe, success, error; count is 0
\* unless status is success, and then 0 <= count <= the number of summary
\* entries that carry a URL
C14_EveryDateEndsWithOneOutcome ==
    \A i \in Tasks :
        Ended(task[i]) =>
            /\ task[i].result # NoResult
            /\ task[i].result[2] \in Statuses
            /\ task[i].result[2] # "success" => task[i].result[1] = 0
            /\ task[i].result[2] = "success" =>
                   task[i].result[1] \in 0..Len(task[i].pdfs)

\* C15: a date takes one slot of the gate before its cache check, holds it
\* through every summary attempt, sleep and download, and gives it back
\* exactly once when process_date ends, by return or by exception: the
\* slots taken are at every moment as many as the process_date executions
\* in flight, and when every date has ended all N slots are free
C15_SlotsHeldAreDatesInFlight ==
    run # "init" =>
        /\ sem + Cardinality(InFlight) = concurrency
        /\ \A i \in Tasks :
               task[i].found # "none" => task[i].pc # "pending"
        /\ (\A i \in Tasks : Ended(task[i])) => sem = concurrency

\* a process_date raised and gave its slot back while another date still
\* holds its own through a sleep
C15_Witness ==
    /\ run = "gather"
    /\ sem = concurrency - 1
    /\ \E i, j \in Tasks :
          /\ task[i].pc = "raised"
          /\ task[j].pc = "pdf_sleep"

\* C16: the statistics change only in the aggregation loop, by one outcome
\* at a time: a step that changes a counter of stats is one iteration of
\* that loop, taken when no process_date is in flight and all have
\* returned, it adds the next result and nothing else, and it belongs to
\* no process_date
C16_StatsChangeOnlyInAggregation ==
    [][stats' # stats =>
          /\ run = "aggregate"
          /\ InFlight = {}
          /\ \A i \in Tasks : task[i].pc = "done"
          /\ task' = task
          /\ n' = n + 1
          /\ stats' = Aggregate(stats, results[n'])]_vars

\* the loop is between two results: the first, with a download, is in the
\* statistics, the second is not yet
C16_Witness ==
    /\ run = "aggregate"
    /\ n = 1
    /\ Len(results) = 2
    /\ stats.downloaded >= 1
    /\ results[2][1] >= 1

\* a step that changes the file at a path is a step of the one
\* process_date whose date has that path, and of no other
WritesOwnPath ==
    \A p \in Paths :
        fs'[p] # fs[p] =>
            \E i \in Tasks :
                /\ p = PdfPath(dates[i])
                /\ task[i].pc = "pdf_get"
                /\ task'[i] # task[i]
                /\ \A j \in Tasks \ {i} : task'[j] = task[j]

\* C17: within a run each date owns its path: there is one process_date
\* per date, two different dates of the range never have the same path,
\* and a write to a path is made by the process_date of its date only, so
\* no two process_date executions write or check the same path
C17_EachDateOwnsItsPath ==
    /\ [](run # "init" =>
             /\ Len(task) = Len(dates)
             /\ \A i, j \in 1..Len(dates) :
                    i # j => /\ dates[i] # dates[j]
                             /\ PdfPath(dates[i]) # PdfPath(dates[j]))
    /\ [][WritesOwnPath]_vars

\* two dates are downloading at the same time and each has written its
\* own file
C17_Witness ==
    \E i, j \in Tasks :
        /\ i # j
        /\ task[i].pc = "pdf_get" /\ task[i].downloaded = 1
        /\ task[j].pc = "pdf_get" /\ task[j].downloaded = 1
        /\ fs[PdfPath(dates[i])] = Content(task[i].pdfs[1][1])
        /\ fs[PdfPath(dates[j])] = Content(task[j].pdfs[1][1])

\* the positions of pdfs whose download succeeded, once process_date returned
Succeeded(t) == (1..Len(t.pdfs)) \ t.failed

\* the greatest element of a non-empty set of numbers
Last(S) == CHOOSE m \in S : \A x \in S : x <= m

\* C18: every download of a date is written to the one path of the date,
\* so a later download overwrites an earlier one: when process_date has
\* returned success, the count is the number of downloads that succeeded,
\* and the one file of the date (the model has one place per date) holds
\* the body of the last download that succeeded, or is absent if none did
C18_LastDownloadWins ==
    \A i \in Tasks :
        (task[i].pc = "done" /\ task[i].result[2] = "success") =>
            /\ task[i].result[1] = Cardinality(Succeeded(task[i]))
            /\ fs[PdfPath(dates[i])] =
                   IF Succeeded(task[i]) = {} THEN "absent"
                   ELSE Content(task[i].pdfs[Last(Succeeded(task[i]))][1])

\* two entries were downloaded: the count is 2, one file is on disk, and
\* it holds the second body, not the first
C18_Witness ==
    \E i \in Tasks :
        /\ task[i].pc = "done"
        /\ Len(task[i].pdfs) = 2
        /\ task[i].result = <<2, "success">>
        /\ fs[PdfPath(dates[i])] = Content(task[i].pdfs[2][1])
        /\ Content(task[i].pdfs[2][1]) # Content(task[i].pdfs[1][1])

\* C19: the requests of one process_date are bounded: at most MAX_RETRIES
\* summary GETs, one retry loop of at most MAX_RETRIES GETs for each of
\* the k entries with a URL, taken in order, so at most
\* MAX_RETRIES * (1 + k) GETs and (MAX_RETRIES - 1) * (1 + k) sleeps for
\* the date (gets and sleeps, which the traced runs keep); no artifact GET
\* is issued before a summary GET succeeded
C19_RequestsAreBounded ==
    \A i \in Tasks :
        LET t == task[i]
            k == Len(t.pdfs)
        IN /\ t.tries <= MAX_RETRIES
           /\ Len(t.slept) <= MAX_RETRIES - 1
           /\ Len(t.attempted) <= k
           /\ t.attempted = [j \in 1..Len(t.attempted) |-> j]
           /\ "pdf" \in t.asked => ("summary" \in t.asked /\ t.shape = "ok")
           /\ "pdf" \notin t.asked => (t.gets <= MAX_RETRIES /\ t.sleeps <= MAX_RETRIES - 1)
           /\ t.gets <= MAX_RETRIES * (1 + k)
           /\ t.sleeps <= (MAX_RETRIES - 1) * (1 + k)

\* the bound is met: the summary and two entries took three GETs each,
\* with two sleeps each, and the ninth GET is under way
C19_Witness ==
    \E i \in Tasks :
        /\ task[i].pc = "pdf_get"
        /\ Len(task[i].pdfs) = 2
        /\ task[i].gets = MAX_RETRIES * (1 + 2)
        /\ task[i].sleeps = (MAX_RETRIES - 1) * (1 + 2)

\* the earlier run left no file for the date: it ended no_boe, error, or
\* success with no download
LeftNoFile(outcome) == outcome[2] \in {"no_boe", "error"} \/ outcome = <<0, "success">>

\* C20: in a second run over the same range on the files the first run
\* left, a date for which the first run wrote a file (its count was at
\* least 1) finds that file, returns (0, cached) without any request and
\* leaves the file as it was; a date that ended no_boe, error or success
\* with 0 downloads finds nothing at its path and is requested again
C20_RerunSkipsDownloadedDays ==
    pass = 2 =>
        \A i \in Tasks :
            task[i].found # "none" =>
                /\ earlier[i][1] >= 1 =>
                       /\ task[i].found \notin InitialEntries
                       /\ task[i].result = <<0, "cached">>
                       /\ task[i].asked = {}
                       /\ fs[PdfPath(dates[i])] = task[i].found
                /\ LeftNoFile(earlier[i]) =>
                       /\ task[i].found = "absent"
                       /\ "summary" \in task[i].asked

\* the second run is over: the date the first run downloaded is cached
\* and its file is the one the first run wrote
C20_Witness ==
    /\ pass = 2
    /\ run = "done"
    /\ \E i \in Tasks :
          /\ earlier[i] = <<2, "success">>
          /\ results[i] = <<0, "cached">>
          /\ fs[PdfPath(dates[i])] = task[i].found
          /\ stats.cached = 1

====
